---- MODULE Spec2Model ----
(***************************************************************************)
(* A model of app.py, the Streamlit viewer of the Azure resource scanner.  *)
(* Streamlit executes the script top to bottom once per page load and once *)
(* more after every widget interaction.  One run is modelled as a chain of *)
(* steps, one per section of the script (the sections are the ones the     *)
(* script's own comments delimit); pc is the position of the run.  The     *)
(* two input files and main.tf are part of the state, and so are the       *)
(* values the sidebar widgets hold between runs.                           *)
(***************************************************************************)
EXTENDS Integers, Sequences, FiniteSets, TLC

\* Longest resources.json (in records) the model explores.
MaxRecords == 3

(***************************************************************************)
(* Resource records.  A record is a function from the keys it has to the   *)
(* values; keys may be missing.  CompleteRecords have the three keys the   *)
(* script subscripts; "unused" is optional in them.  PartialRecords lack   *)
(* one of the three.  The first two records are the example of the         *)
(* specification.                                                          *)
(***************************************************************************)
CompleteRecords ==
    { [type |-> "VM", location |-> "eastus", resourceGroup |-> "rg1", unused |-> TRUE],
      [type |-> "VM", location |-> "westus", resourceGroup |-> "rg1", unused |-> FALSE],
      [type |-> "DB", location |-> "eastus", resourceGroup |-> "rg2"],
      [type |-> "DB", location |-> "westus", resourceGroup |-> "rg2", unused |-> TRUE] }

PartialRecords ==
    { [location |-> "eastus", resourceGroup |-> "rg1", unused |-> TRUE],
      [type |-> "VM", resourceGroup |-> "rg1"],
      [type |-> "DB", location |-> "westus", unused |-> FALSE] }

RecordUniverse == CompleteRecords \cup PartialRecords

\* All lists of at most n records: the possible contents of resources.json.
RecordLists(n) == UNION { [1..k -> RecordUniverse] : k \in 0..n }

VARIABLES
    resources_exists,   \* resources_file.exists()
    resources_json,     \* the content of resources.json (when it exists)
    graph_exists,       \* graph_file.exists()
    main_tf,            \* the content of main.tf: "absent", "stale" or "terraform_config"
    type_filter,        \* value of the "Resource Type" multiselect
    location_filter,    \* value of the "Location" multiselect
    group_filter,       \* value of the "Resource Group" multiselect
    show_unused,        \* value of the "Only show unused resources" checkbox
    pc,                 \* position of the current run in the script
    resources,          \* the script's variable resources
    all_types,          \* the script's variable all_types
    all_locations,      \* the script's variable all_locations
    all_groups,         \* the script's variable all_groups
    filtered,           \* the script's variable filtered
    count_shown,        \* <<M, N>> of the subheader "Displaying M of N resources"
    csv,                \* the rows of the data handed to the download button
    ui                  \* the elements rendered by the current run, in order

files   == <<resources_exists, resources_json, graph_exists>>
widgets == <<type_filter, location_filter, group_filter, show_unused>>
script  == <<resources, all_types, all_locations, all_groups, filtered, count_shown, csv>>
vars    == <<files, main_tf, widgets, pc, script, ui>>

(***************************************************************************)
(* Python helpers.                                                         *)
(***************************************************************************)
Range(s) == { s[i] : i \in DOMAIN s }

\* Python's order on the strings that occur as field values (code points).
StrOrd(s) ==
    CASE s = "DB"     -> 1
      [] s = "VM"     -> 2
      [] s = "eastus" -> 3
      [] s = "rg1"    -> 4
      [] s = "rg2"    -> 5
      [] s = "westus" -> 6

\* list.insert at the place that keeps a sorted list sorted (stable).
RECURSIVE InsertSorted(_, _)
InsertSorted(x, s) ==
    IF s = <<>> THEN <<x>>
    ELSE IF StrOrd(x) < StrOrd(Head(s)) THEN <<x>> \o s
    ELSE <<Head(s)>> \o InsertSorted(x, Tail(s))

\* sorted(list)
RECURSIVE sorted(_)
sorted(s) ==
    IF s = <<>> THEN <<>>
    ELSE InsertSorted(s[Len(s)], sorted(SubSeq(s, 1, Len(s) - 1)))

\* The elements of a set in the (arbitrary) order iteration yields them.
RECURSIVE SetToSeq(_)
SetToSeq(S) ==
    IF S = {} THEN <<>>
    ELSE LET x == CHOOSE y \in S : TRUE IN <<x>> \o SetToSeq(S \ {x})

\* r[key] raises KeyError exactly when the key is missing.
HasKey(r, key) == key \in DOMAIN r

\* r.get("unused", True): a missing key counts as unused.
GetUnused_DefaultTrue(r) == IF HasKey(r, "unused") THEN r["unused"] ELSE TRUE

\* r.get("unused"): None, which is falsy, when the key is missing.
GetUnused(r) == IF HasKey(r, "unused") THEN r["unused"] ELSE FALSE

(***************************************************************************)
(* The pure parts of the script.                                           *)
(***************************************************************************)
\* Some r[key] of the generator expression raises KeyError.
KeyMissing(rs, key) == \E i \in DOMAIN rs : ~HasKey(rs[i], key)

\* sorted(r[key] for r in resources): the option list without set().
Options_NoSet(rs, key) == sorted([i \in DOMAIN rs |-> rs[i][key]])

\* sorted(set(r[key] for r in resources))
Options(rs, key) == sorted(SetToSeq({ rs[i][key] : i \in DOMAIN rs }))

\* The loop body with the resource group test left out.
Keep_NoGroupTest(r, tf, lf, gf, su) ==
    /\ ~(tf # {} /\ r["type"] \notin tf)
    /\ ~(lf # {} /\ r["location"] \notin lf)
    /\ ~(su /\ ~GetUnused(r))

\* The body of the filter loop: TRUE when no `continue` is taken and the
\* record is appended.  `and` short-circuits, and so does /\ here.
Keep(r, tf, lf, gf, su) ==
    /\ ~(tf # {} /\ r["type"] \notin tf)
    /\ ~(lf # {} /\ r["location"] \notin lf)
    /\ ~(gf # {} /\ r["resourceGroup"] \notin gf)
    /\ ~(su /\ ~GetUnused(r))

\* The loop `for r in resources` from the i-th record on, acc being filtered.
RECURSIVE FilterFrom(_, _, _, _, _, _, _)
FilterFrom(rs, i, acc, tf, lf, gf, su) ==
    IF i > Len(rs) THEN acc
    ELSE FilterFrom(rs, i + 1,
                    IF Keep(rs[i], tf, lf, gf, su) THEN Append(acc, rs[i]) ELSE acc,
                    tf, lf, gf, su)

\* The loop with filtered.insert(0, r) in place of filtered.append(r).
RECURSIVE FilterFrom_Prepend(_, _, _, _, _, _, _)
FilterFrom_Prepend(rs, i, acc, tf, lf, gf, su) ==
    IF i > Len(rs) THEN acc
    ELSE FilterFrom_Prepend(rs, i + 1,
                    IF Keep(rs[i], tf, lf, gf, su) THEN <<rs[i]>> \o acc ELSE acc,
                    tf, lf, gf, su)

FilterLogic_Prepend(rs, tf, lf, gf, su) == FilterFrom_Prepend(rs, 1, <<>>, tf, lf, gf, su)

\* The loop started at the second record (resources[1:]).
FilterLogic_SkipFirst(rs, tf, lf, gf, su) == FilterFrom(rs, 2, <<>>, tf, lf, gf, su)

\* filtered = []; for r in resources: ...
FilterLogic(rs, tf, lf, gf, su) == FilterFrom(rs, 1, <<>>, tf, lf, gf, su)

\* The order in which the scanner writes the keys of a record.
KeyOrder == <<"type", "location", "resourceGroup", "unused">>

\* pd.DataFrame(filtered).columns: the union of the records' keys.
Columns(df) == SelectSeq(KeyOrder, LAMBDA k : \E i \in DOMAIN df : HasKey(df[i], k))

\* One cell as to_csv writes it: a missing value is the empty string, a
\* boolean is written True or False, a string as it is.
Cell(r, k) ==
    IF ~HasKey(r, k) THEN ""
    ELSE IF k = "unused" THEN (IF r[k] THEN "True" ELSE "False")
    ELSE r[k]

\* df.to_csv(index=False, header=False): the data rows without the header.
to_csv_NoHeader(df) ==
    LET cols == Columns(df) IN
    [i \in 1..Len(df) |-> [j \in 1..Len(cols) |-> Cell(df[i], cols[j])]]

\* df.to_csv(index=False): the header row, then one row per record, no
\* index column.  (The lines of the text, each as its list of cells.)
to_csv(df) ==
    LET cols == Columns(df) IN
    <<cols>> \o [i \in 1..Len(df) |-> [j \in 1..Len(cols) |-> Cell(df[i], cols[j])]]

(***************************************************************************)
(* The state before the first run.  resources.json and dependencies.gml    *)
(* are written by the scanner, which is not part of this program: they are *)
(* any files, and stay as they are.  main.tf is absent or left over from   *)
(* somewhere else.  The widgets hold their defaults.                       *)
(***************************************************************************)
Fresh ==
    /\ resources = <<>>
    /\ all_types = <<>>
    /\ all_locations = <<>>
    /\ all_groups = <<>>
    /\ filtered = <<>>
    /\ count_shown = <<0, 0>>
    /\ csv = <<>>
    /\ ui = <<>>

Init ==
    /\ resources_exists \in BOOLEAN
    /\ resources_json \in (IF resources_exists THEN RecordLists(MaxRecords) ELSE {<<>>})
    /\ graph_exists \in BOOLEAN
    /\ main_tf \in {"absent", "stale"}
    /\ type_filter = {}
    /\ location_filter = {}
    /\ group_filter = {}
    /\ show_unused = FALSE
    /\ pc = "start"
    /\ Fresh

(***************************************************************************)
(* The steps of one run.                                                   *)
(***************************************************************************)
\* Lines 10-23 without st.stop(): the error is shown and the run goes on
\* with no records.
Load_NoStop ==
    /\ pc = "start"
    /\ IF ~resources_exists
         THEN /\ ui' = <<"title", "error">>
              /\ resources' = <<>>
         ELSE /\ ui' = <<"title">>
              /\ resources' = resources_json
    /\ pc' = "filters"
    /\ UNCHANGED <<files, main_tf, widgets, all_types, all_locations, all_groups,
                   filtered, count_shown, csv>>

\* Lines 10-23: the title, the existence check of resources.json with
\* st.error and st.stop, and json.load.
Load ==
    /\ pc = "start"
    /\ \/ /\ ~resources_exists
          /\ ui' = <<"title", "error">>
          /\ pc' = "stopped"
          /\ UNCHANGED resources
       \/ /\ resources_exists
          /\ ui' = <<"title">>
          /\ resources' = resources_json
          /\ pc' = "filters"
    /\ UNCHANGED <<files, main_tf, widgets, all_types, all_locations, all_groups,
                   filtered, count_shown, csv>>

\* Lines 25-34: the option lists and the sidebar.  A record without one of
\* the three keys ends the run with KeyError, which Streamlit displays.
Filters ==
    /\ pc = "filters"
    /\ \/ /\ \E k \in {"type", "location", "resourceGroup"} : KeyMissing(resources, k)
          /\ ui' = Append(ui, "KeyError")
          /\ pc' = "crashed"
          /\ UNCHANGED <<all_types, all_locations, all_groups>>
       \/ /\ \A k \in {"type", "location", "resourceGroup"} : ~KeyMissing(resources, k)
          /\ all_types' = Options(resources, "type")
          /\ all_locations' = Options(resources, "location")
          /\ all_groups' = Options(resources, "resourceGroup")
          /\ ui' = Append(ui, "sidebar")
          /\ pc' = "filter_logic"
    /\ UNCHANGED <<files, main_tf, widgets, resources, filtered, count_shown, csv>>

\* Lines 36-47: the filter loop.
FilterStep ==
    /\ pc = "filter_logic"
    /\ filtered' = FilterLogic(resources, type_filter, location_filter,
                               group_filter, show_unused)
    /\ pc' = "table"
    /\ UNCHANGED <<files, main_tf, widgets, resources, all_types, all_locations,
                   all_groups, count_shown, csv, ui>>

\* Lines 49-60 with the data frame built from resources, not from filtered.
TableView_ExportsAll ==
    /\ pc = "table"
    /\ count_shown' = <<Len(filtered), Len(resources)>>
    /\ csv' = to_csv(resources)
    /\ ui' = ui \o <<"count", "table", "download">>
    /\ pc' = "graph"
    /\ UNCHANGED <<files, main_tf, widgets, resources, all_types, all_locations,
                   all_groups, filtered>>

\* Lines 49-60: the subheader with the counts, the table and the download
\* button with the CSV text of the table's data frame.
TableView ==
    /\ pc = "table"
    /\ count_shown' = <<Len(filtered), Len(resources)>>
    /\ csv' = to_csv(filtered)
    /\ ui' = ui \o <<"count", "table", "download">>
    /\ pc' = "graph"
    /\ UNCHANGED <<files, main_tf, widgets, resources, all_types, all_locations,
                   all_groups, filtered>>

\* Lines 62-72: the graph, or the warning when dependencies.gml is absent.
GraphView ==
    /\ pc = "graph"
    /\ \/ /\ graph_exists
          /\ ui' = Append(ui, "graph")
       \/ /\ ~graph_exists
          /\ ui' = Append(ui, "warning")
    /\ pc' = "emit"
    /\ UNCHANGED <<files, main_tf, widgets, script>>

\* Lines 119-122 with the write left out.
EmitConfig_NoWrite ==
    /\ pc = "emit"
    /\ ui' = Append(ui, "success")
    /\ pc' = "done"
    /\ UNCHANGED <<files, main_tf, widgets, script>>

\* Lines 119-122: main.tf is (over)written and the success message shown.
EmitConfig ==
    /\ pc = "emit"
    /\ main_tf' = "terraform_config"
    /\ ui' = Append(ui, "success")
    /\ pc' = "done"
    /\ UNCHANGED <<files, widgets, script>>

(***************************************************************************)
(* The user.  Changing a widget of a finished run sets the widget's value  *)
(* and runs the script again; a multiselect offers its option list only.   *)
(* Reloading the page starts a new session with the widgets' defaults.     *)
(***************************************************************************)
Toggle(S, v) == IF v \in S THEN S \ {v} ELSE S \cup {v}

Rerun ==
    /\ pc' = "start"
    /\ resources' = <<>>
    /\ all_types' = <<>>
    /\ all_locations' = <<>>
    /\ all_groups' = <<>>
    /\ filtered' = <<>>
    /\ count_shown' = <<0, 0>>
    /\ csv' = <<>>
    /\ ui' = <<>>
    /\ UNCHANGED <<files, main_tf>>

SelectType ==
    /\ pc = "done"
    /\ \E v \in Range(all_types) : type_filter' = Toggle(type_filter, v)
    /\ UNCHANGED <<location_filter, group_filter, show_unused>>
    /\ Rerun

SelectLocation ==
    /\ pc = "done"
    /\ \E v \in Range(all_locations) : location_filter' = Toggle(location_filter, v)
    /\ UNCHANGED <<type_filter, group_filter, show_unused>>
    /\ Rerun

SelectGroup ==
    /\ pc = "done"
    /\ \E v \in Range(all_groups) : group_filter' = Toggle(group_filter, v)
    /\ UNCHANGED <<type_filter, location_filter, show_unused>>
    /\ Rerun

CheckUnused ==
    /\ pc = "done"
    /\ show_unused' = ~show_unused
    /\ UNCHANGED <<type_filter, location_filter, group_filter>>
    /\ Rerun

Reload ==
    /\ pc \in {"done", "stopped", "crashed"}
    /\ type_filter' = {}
    /\ location_filter' = {}
    /\ group_filter' = {}
    /\ show_unused' = FALSE
    /\ Rerun

Next ==
    \/ Load
    \/ Filters
    \/ FilterStep
    \/ TableView
    \/ GraphView
    \/ EmitConfig
    \/ SelectType
    \/ SelectLocation
    \/ SelectGroup
    \/ CheckUnused
    \/ Reload

Spec == Init /\ [][Next]_vars

(***************************************************************************)
(* Properties.  The positions of a run at which a result is available:     *)
(***************************************************************************)
OptionsDerived == pc \in {"filter_logic", "table", "graph", "emit", "done"}
Filtered       == pc \in {"table", "graph", "emit", "done"}
TableShown     == pc \in {"graph", "emit", "done"}
RunEnded       == pc \in {"done", "stopped", "crashed"}

\* The conjunctive predicate of the current filter selection, stated on a
\* record's fields: an empty allow-set does not constrain its field.
PassesSelection(r) ==
    /\ (type_filter = {} \/ r.type \in type_filter)
    /\ (location_filter = {} \/ r.location \in location_filter)
    /\ (group_filter = {} \/ r.resourceGroup \in group_filter)
    /\ (~show_unused \/ ("unused" \in DOMAIN r /\ r.unused = TRUE))

\* The same predicate without the unused-only toggle.
PassesCategorical(r) ==
    /\ (type_filter = {} \/ r.type \in type_filter)
    /\ (location_filter = {} \/ r.location \in location_filter)
    /\ (group_filter = {} \/ r.resourceGroup \in group_filter)

\* C1: once the filter has run, a record is in the filtered list if and
\* only if it is a loaded record and satisfies every active predicate of the
\* selection (allow-set empty or containing the value, for each of the three
\* fields; toggle off or unused truthy).
C1_FilterMembership ==
    Filtered =>
        \A r \in RecordUniverse :
            (r \in Range(filtered)) <=> (r \in Range(resources) /\ PassesSelection(r))

C1_Witness ==
    /\ pc = "done"
    /\ type_filter # {} /\ location_filter # {} /\ group_filter # {} /\ show_unused
    /\ filtered # <<>>
    /\ Len(filtered) < Len(resources)

\* C2: the filtered list is the subsequence of the loaded list at exactly
\* the passing positions, in increasing order, each position once
\* (duplicates kept apart), and the loaded list is still the file's content.
C2_StableSubsequence ==
    Filtered =>
        /\ resources = resources_json
        /\ \E f \in [1..Len(filtered) -> 1..Len(resources)] :
              /\ \A i, j \in 1..Len(filtered) : i < j => f[i] < f[j]
              /\ \A i \in 1..Len(filtered) : filtered[i] = resources[f[i]]
              /\ { f[i] : i \in 1..Len(filtered) }
                    = { j \in 1..Len(resources) : PassesSelection(resources[j]) }

C2_Witness ==
    /\ pc = "done"
    /\ Len(resources) = 3
    /\ resources[1] = resources[3]
    /\ resources[2] # resources[1]
    /\ filtered = <<resources[1], resources[3]>>

\* C3: without resources.json a run ends at the existence check: only the
\* title and the error are rendered, nothing is loaded, counted, exported or
\* drawn, and main.tf is not written.
C3_MissingPrimaryHalts ==
    (~resources_exists /\ pc # "start") =>
        /\ pc = "stopped"
        /\ ui = <<"title", "error">>
        /\ resources = <<>>
        /\ filtered = <<>>
        /\ count_shown = <<0, 0>>
        /\ csv = <<>>
        /\ main_tf # "terraform_config"

C3_Witness == pc = "stopped" /\ ~resources_exists /\ graph_exists

C5_MissingGraphRunCompletes ==
    (RunEnded /\ resources_exists /\ ~graph_exists) =>
        /\ pc = "done"
        /\ ui = <<"title", "sidebar", "count", "table", "download", "warning", "success">>
        /\ count_shown = <<Len(filtered), Len(resources)>>
        /\ main_tf = "terraform_config"

\* C6: a record without type, location or resourceGroup never makes a run
\* fail: the run still ends normally.
C6_NoFailureOnMissingField ==
    (RunEnded /\ \E k \in {"type", "location", "resourceGroup"} :
                    KeyMissing(resources_json, k))
        => pc = "done"

\* C7: each option list is the strictly increasing (so duplicate-free) list
\* of the field's values over all records of the file, whatever the filter
\* selection is.
IsOptionList(s, S) ==
    /\ Range(s) = S
    /\ \A i, j \in 1..Len(s) : i < j => StrOrd(s[i]) < StrOrd(s[j])

C7_OptionLists ==
    OptionsDerived =>
        /\ IsOptionList(all_types, { resources_json[i].type : i \in DOMAIN resources_json })
        /\ IsOptionList(all_locations,
                        { resources_json[i].location : i \in DOMAIN resources_json })
        /\ IsOptionList(all_groups,
                        { resources_json[i].resourceGroup : i \in DOMAIN resources_json })

C7_Witness ==
    /\ pc = "done"
    /\ type_filter # {} /\ show_unused
    /\ Len(all_types) = 2
    /\ Len(all_groups) < Len(resources)
    /\ Len(filtered) < Len(resources)

\* The record a data row of the export stands for: the columns with a
\* non-empty cell, True/False read back as booleans.
DecodeRow(header, row) ==
    [k \in { header[j] : j \in { n \in DOMAIN header : row[n] # "" } } |->
        LET j == CHOOSE n \in DOMAIN header : header[n] = k
        IN  IF k = "unused" THEN row[j] = "True" ELSE row[j]]

\* C8: the exported data has, after its header, one row per filtered
\* record, in filtered order, none for a record the selection excludes; the
\* count shows M = filtered records and N = loaded records.
C8_ExportIsFilteredList ==
    TableShown =>
        /\ Len(csv) = Len(filtered) + 1
        /\ \A i \in 1..Len(filtered) :
              /\ Len(csv[i + 1]) = Len(csv[1])
              /\ DecodeRow(csv[1], csv[i + 1]) = filtered[i]
        /\ \A i \in 2..Len(csv) : PassesSelection(DecodeRow(csv[1], csv[i]))
        /\ count_shown = <<Len(filtered), Len(resources)>>

C8_Witness ==
    /\ TableShown
    /\ Len(filtered) = 2
    /\ Len(resources) = 3
    /\ Len(csv) = 3
    /\ \E i \in 1..2 : "unused" \notin DOMAIN filtered[i]

\* C9: filtering the filtered list again with the same selection gives the
\* filtered list again.
C9_Idempotent ==
    Filtered =>
        FilterLogic(filtered, type_filter, location_filter, group_filter, show_unused)
            = filtered

C9_Witness ==
    /\ Filtered
    /\ Len(filtered) = 1
    /\ Len(resources) = 2
    /\ location_filter # {}

\* C10: with the toggle on no record without `unused` is in the filtered
\* list; with the toggle off the filtered list is decided by the three
\* allow-sets alone.
C10_MissingUnusedIsFalse ==
    Filtered =>
        /\ show_unused =>
              \A j \in 1..Len(resources) :
                  "unused" \notin DOMAIN resources[j] => resources[j] \notin Range(filtered)
        /\ ~show_unused => filtered = SelectSeq(resources, PassesCategorical)

C10_Witness ==
    /\ Filtered
    /\ show_unused
    /\ filtered # <<>>
    /\ \E j \in 1..Len(resources) : "unused" \notin DOMAIN resources[j]

====
